---- MODULE Spec2Model ----
(***************************************************************************)
(* Model of the passwordless authentication flow (request_otp, verify_otp) *)
(* and of the progress / leaderboard endpoints of src/main.py, over the    *)
(* document collections otp, session, user and progress.                   *)
(*                                                                         *)
(* Time is counted in minutes.  The store promises no order among the      *)
(* documents of a collection: find_one and update_one pick ANY matching    *)
(* document.  The insert-only collections otp, session and user are kept   *)
(* as the sequence of their documents in insertion order, the progress     *)
(* collection, which is updated in place, as the bag of its documents.     *)
(***************************************************************************)
EXTENDS Integers, Sequences, FiniteSets, Bags, TLC

\* ------------------------------------------------------------------ bounds
\* Codes issued plus sessions opened (or about to be) in one run.
MaxRequests == 3
MaxDocs == 3

\* ------------------------------------------------------- program constants
\* timedelta(minutes=10) in request_otp
OtpValidity == 10

\* ------------------------------------------------------------ input domains
\* Identities (EmailStr values of the request bodies).
Emails == {"a@x.com", "b@x.com"}
\* Values of f"{secrets.randbelow(1000000):06d}": six-digit strings.
Codes == {"000001", "000002"}
\* The clock is read at these instants only: the issue of a code, and the two
\* sides of its expiry.
Instants == {0, OtpValidity, OtpValidity + 1}
\* Values of secrets.token_hex(16).
Tokens == {"t1", "t2"}
\* Concurrent request handlers.
Workers == {1, 2}

\* Optional values: None or Some(v).
None == << >>
Some(v) == << v >>

VARIABLES now, otp, session, user, pc, call, resp, progress, board

vars == << now, otp, session, user, pc, call, resp, progress, board >>
progressVars == << progress, board >>

\* ------------------------------------------------------------------ store
\* create_document(collection, model): insert one document.
create_document(col, doc) == Append(col, doc)

\* A lookup by code alone, whoever the code was issued to.
MatchCodeOnly(col, e, c) == { i \in 1..Len(col) : col[i].code = c }

\* Indices of the documents of col an equality filter on email and code matches.
MatchOtp(col, e, c) == { i \in 1..Len(col) : col[i].email = e /\ col[i].code = c }

\* Indices of the documents of col the filter {"email": e} matches.
MatchEmail(col, e) == { i \in 1..Len(col) : col[i].email = e }

\* ------------------------------------------------------------- documents
OTP(e, c, exp) == [email |-> e, code |-> c, expires_at |-> exp]

\* A session stamped with a fixed time instead of the clock.
SessionUnstamped(e, t, ts) == [email |-> e, token |-> t, created_at |-> 0]

Session(e, t, ts) == [email |-> e, token |-> t, created_at |-> ts]

User(e) == [email |-> e, role |-> "student", locale |-> "en", points |-> 0]

\* The locals of a verify_otp call between two of its steps: the request body,
\* the number of codes stored when find_one ran (seen), the document find_one
\* returned (rec), the token, and the collections the call has written to.
NoCall == [email |-> "", code |-> "", seen |-> 0, rec |-> None,
           token |-> "", wrote |-> {}]

\* The last response a verify_otp call gave: {"token": token}, or the error.
Response(status, token) == [status |-> status, token |-> token]

Failure(status) == Response(status, "")

\* Documents stored by the two handlers, and those a running verify may still
\* store: the model stops accepting requests at MaxRequests of them.
Budget == Len(otp) + Len(session) + Cardinality({ q \in Workers : pc[q] = "check" })

\* ------------------------------------------------------------ request_otp
\* expires = now + 10 minutes; one document is inserted, none is touched.
\* (A create_document that raises stores nothing: that step changes no state.)
RequestOtp(e, c) ==
    /\ Budget < MaxRequests
    /\ otp' = create_document(otp, OTP(e, c, now + OtpValidity))
    /\ UNCHANGED << now, session, user, pc, call, resp, progressVars >>

\* ------------------------------------------------------------- verify_otp
\* A code that stops being valid AT its expires_at.
CodeIsExpiredAtEquality(rec, t) == rec.expires_at <= t

\* rec["expires_at"] < datetime.now(timezone.utc)
CodeIsExpired(rec, t) == rec.expires_at < t

\* Lines 102-105: look the (email, code) pair up; no match is "Invalid code".
VerifyLookup(p, e, c) ==
    /\ pc[p] = "idle"
    /\ Budget < MaxRequests
    /\ \/ /\ MatchOtp(otp, e, c) = {}
          /\ resp' = Failure("InvalidCode")
          /\ UNCHANGED << pc, call >>
       \/ \E i \in MatchOtp(otp, e, c) :
             /\ call' = [call EXCEPT ![p] = [NoCall EXCEPT !.email = e, !.code = c,
                                               !.seen = Len(otp), !.rec = Some(otp[i])]]
             /\ pc' = [pc EXCEPT ![p] = "check"]
             /\ resp' = resp
       \/ \* the store is down or not configured
          /\ resp' = Failure("StorageUnavailable")
          /\ UNCHANGED << pc, call >>
    /\ UNCHANGED << now, otp, session, user, progressVars >>

\* Lines 106-109: compare with the clock, draw a token, store the session.
VerifyCheck(p) ==
    /\ pc[p] = "check"
    /\ IF CodeIsExpired(call[p].rec[1], now)
       THEN /\ resp' = Failure("CodeExpired")
            /\ call' = [call EXCEPT ![p] = NoCall]
            /\ pc' = [pc EXCEPT ![p] = "idle"]
            /\ session' = session
       ELSE \E t \in Tokens :
              \/ /\ session' = create_document(session, Session(call[p].email, t, now))
                 /\ call' = [call EXCEPT ![p] = [NoCall EXCEPT !.email = call[p].email,
                                                   !.token = t, !.wrote = {"session"}]]
                 /\ pc' = [pc EXCEPT ![p] = "users"]
                 /\ resp' = resp
              \/ \* create_document raises
                 /\ session' = session
                 /\ resp' = Failure("StorageUnavailable")
                 /\ call' = [call EXCEPT ![p] = NoCall]
                 /\ pc' = [pc EXCEPT ![p] = "idle"]
    /\ UNCHANGED << now, otp, user, progressVars >>

\* Lines 111-112: does an account exist?  If so, line 114 returns the token.
VerifyFindUser(p) ==
    /\ pc[p] = "users"
    /\ \/ /\ MatchEmail(user, call[p].email) # {}
          /\ resp' = Response("ok", call[p].token)
          /\ call' = [call EXCEPT ![p] = NoCall]
          /\ pc' = [pc EXCEPT ![p] = "idle"]
       \/ /\ MatchEmail(user, call[p].email) = {}
          /\ pc' = [pc EXCEPT ![p] = "create"]
          /\ UNCHANGED << call, resp >>
       \/ \* find_one raises
          /\ resp' = Failure("StorageUnavailable")
          /\ call' = [call EXCEPT ![p] = NoCall]
          /\ pc' = [pc EXCEPT ![p] = "idle"]
    /\ UNCHANGED << now, otp, session, user, progressVars >>

\* Lines 113-114: insert the account, return the token.
VerifyCreateUser(p) ==
    /\ pc[p] = "create"
    /\ \/ /\ user' = create_document(user, User(call[p].email))
          /\ resp' = Response("ok", call[p].token)
       \/ \* create_document raises
          /\ user' = user
          /\ resp' = Failure("StorageUnavailable")
    /\ call' = [call EXCEPT ![p] = NoCall]
    /\ pc' = [pc EXCEPT ![p] = "idle"]
    /\ UNCHANGED << now, otp, session, progressVars >>

\* ------------------------------------------------------------------ clock
Tick ==
    /\ \E t \in Instants : t > now /\ now' = t
    /\ UNCHANGED << otp, session, user, pc, call, resp, progressVars >>

\* --------------------------------------------------------------- progress
\* A document, and a request body, is a function from the names of the fields
\* it holds to their values; an optional value (lesson_id, score) is None for
\* null and Some(v) otherwise.  A Progress body holds the fields the caller
\* supplied: user_email and course_id always, the others when set.
Get(d, f, default) == IF f \in DOMAIN d THEN d[f] ELSE default

Unset == [f \in {} |-> None]

Courses == {"c1"}

Lessons == {"l1"}

LessonArgs == {Unset} \cup { "lesson_id" :> l : l \in {None} \cup { Some(x) : x \in Lessons } }

CompletedArgs == {Unset} \cup { "completed" :> b : b \in BOOLEAN }

Progress(e, c, lesson, completed, score) ==
    [user_email |-> e, course_id |-> c] @@ lesson @@ completed @@ score

\* Bodies of the merge scenarios: every combination of set and unset fields.
ProgressBodies ==
    { Progress(e, c, l, d, s) :
        e \in Emails, c \in Courses, l \in LessonArgs, d \in CompletedArgs,
        s \in {Unset} \cup { "score" :> Some(v) : v \in {80} } }

\* Bodies of the ranking scenarios: scores that are missing, null, add up
\* and tie, on documents that are not completed.
ScoreBodies ==
    { Progress(e, c, l, d, s) :
        e \in Emails, c \in Courses, l \in {Unset} \cup { "lesson_id" :> Some(x) : x \in Lessons },
        d \in {Unset, "completed" :> FALSE},
        s \in {Unset} \cup { "score" :> v : v \in {None, Some(5), Some(10)} } }

\* body.model_dump(exclude_unset=True): the fields the caller set.
model_dump(body) == body

\* {"user_email": ..., "course_id": ..., "lesson_id": body.lesson_id}
ProgressFilter(body) ==
    [user_email |-> body.user_email, course_id |-> body.course_id,
     lesson_id |-> Get(body, "lesson_id", None)]

\* A filter in which null matches nothing, as in SQL.
LessonMatchesNamedOnly(doc, l) == l # None /\ Get(doc, "lesson_id", None) = l

\* An equality condition on lesson_id: null matches a null or missing field.
LessonMatches(doc, l) == Get(doc, "lesson_id", None) = l

MatchProgress(col, flt) ==
    { d \in BagToSet(col) : /\ d.user_email = flt.user_email
                            /\ d.course_id = flt.course_id
                            /\ LessonMatches(d, flt.lesson_id) }

\* A replacement: the fields the caller left out are dropped.
ApplyReplace(doc, fields, t) ==
    ("updated_at" :> t) @@ fields
        @@ [f \in {"user_email", "course_id", "lesson_id"} \cap DOMAIN doc |-> doc[f]]

\* {"$set": fields, "$currentDate": {"updated_at": True}} applied to doc.
ApplyUpdate(doc, fields, t) == ("updated_at" :> t) @@ fields @@ doc

\* update_one(filter, update, upsert=True): one atomic store operation.
UpdateOneUpsert(col, flt, fields, t) ==
    IF MatchProgress(col, flt) # {}
    THEN { (col (-) SetToBag({d})) (+) SetToBag({ApplyUpdate(d, fields, t)}) :
             d \in MatchProgress(col, flt) }
    ELSE { col (+) SetToBag({ApplyUpdate(flt, fields, t)}) }

\* upsert_progress
UpsertProgress(body) ==
    /\ \/ MatchProgress(progress, ProgressFilter(body)) # {}
       \/ BagCardinality(progress) < MaxDocs
    /\ progress' \in UpdateOneUpsert(progress, ProgressFilter(body), model_dump(body), now)
    /\ board' = None
    /\ UNCHANGED << now, otp, session, user, pc, call, resp >>

\* ------------------------------------------------------------ leaderboard
Limits == {-1, 0, 1, 2, 10}

\* {"$ifNull": ["$score", 0]}
ScoreOrZero(doc) ==
    IF "score" \in DOMAIN doc /\ doc.score # None THEN doc.score[1] ELSE 0

\* A group that keeps the score of its last document ($last for $sum).
RECURSIVE GroupLast(_)
GroupLast(col) ==
    IF col = EmptyBag THEN [e \in {} |-> 0]
    ELSE LET d == CHOOSE x \in BagToSet(col) : TRUE
         IN  (d.user_email :> ScoreOrZero(d)) @@ GroupLast(col (-) SetToBag({d}))

\* {"$group": {"_id": "$user_email", "score": {"$sum": ...}}}: the documents are
\* folded one by one into the accumulator of their group.
RECURSIVE GroupStage(_)
GroupStage(col) ==
    IF col = EmptyBag THEN [e \in {} |-> 0]
    ELSE LET d   == CHOOSE x \in BagToSet(col) : TRUE
             acc == GroupStage(col (-) SetToBag({d}))
             id  == d.user_email
         IN  (id :> (Get(acc, id, 0) + ScoreOrZero(d))) @@ acc

Groups(col) ==
    LET acc == GroupStage(col)
    IN  { [_id |-> e, score |-> acc[e]] : e \in DOMAIN acc }

\* {"$sort": {"score": -1}}: the orders of the groups the sort may produce.
InOrder(a, b) == a.score >= b.score

SortStage(groups) ==
    LET k == Cardinality(groups)
    IN  { s \in [1..k -> groups] :
            /\ \A i, j \in 1..k : i # j => s[i] # s[j]
            /\ \A i, j \in 1..k : i < j => InOrder(s[i], s[j]) }

\* {"$limit": limit}
LimitStage(s, limit) == SubSeq(s, 1, IF limit < Len(s) THEN limit ELSE Len(s))

\* [{"user_email": a["_id"], "score": a["score"]} for a in agg]
Entries(agg) == [i \in 1..Len(agg) |-> [user_email |-> agg[i]._id, score |-> agg[i].score]]

\* leaderboard: a $limit that is not positive makes the store reject the
\* pipeline, and aggregate raises.
Leaderboard(limit) ==
    /\ IF limit <= 0
       THEN board' = Some([limit |-> limit, status |-> "OperationFailure", entries |-> << >>])
       ELSE \E s \in SortStage(Groups(progress)) :
              board' = Some([limit |-> limit, status |-> "ok",
                             entries |-> Entries(LimitStage(s, limit))])
    /\ UNCHANGED << now, otp, session, user, pc, call, resp, progress >>

\* -------------------------------------------------------------------- init
Init ==
    /\ now = 0
    /\ otp = << >>
    /\ session = << >>
    /\ user = << >>
    /\ pc = [p \in Workers |-> "idle"]
    /\ call = [p \in Workers |-> NoCall]
    /\ resp = Failure("none")
    /\ progress = EmptyBag
    /\ board = None

\* Authentication: codes, sessions and accounts, two handlers at a time.
Next ==
    \/ Tick
    \/ \E e \in Emails, c \in Codes : RequestOtp(e, c)
    \/ \E p \in Workers, e \in Emails, c \in Codes : VerifyLookup(p, e, c)
    \/ \E p \in Workers : VerifyCheck(p)
    \/ \E p \in Workers : VerifyFindUser(p)
    \/ \E p \in Workers : VerifyCreateUser(p)

Spec == Init /\ [][Next]_vars

\* Progress tracking: every upsert is one atomic store operation.
NextProgress == \E body \in ProgressBodies : UpsertProgress(body)

SpecProgress == Init /\ [][NextProgress]_vars

\* Ranking: upserts build the collection, the leaderboard reads it.
NextLeaderboard ==
    \/ \E body \in ScoreBodies : UpsertProgress(body)
    \/ \E limit \in Limits : Leaderboard(limit)

SpecLeaderboard == Init /\ [][NextLeaderboard]_vars

\* =========================================================== properties
\* The stored codes with identity e and code string c.
Stored(e, c) == { i \in 1..Len(otp) : otp[i].email = e /\ otp[i].code = c }

\* Worker p takes the step of lines 106-109.
ChecksExpiry(p) == pc[p] = "check" /\ pc'[p] # "check"

\* Worker p's call ends in this step with a given response.
Ends(p, r) == pc[p] # "idle" /\ pc'[p] = "idle" /\ resp' = r

\* Worker p's call ends in this step by returning its token.
Succeeds(p) == Ends(p, Response("ok", call[p].token))

\* Worker p's call ends in this step in a failure.
Fails(p) == \E st \in {"InvalidCode", "CodeExpired", "StorageUnavailable"} : Ends(p, Failure(st))

Accounts(col, e) == Cardinality({ i \in 1..Len(col) : col[i].email = e })

\* C1: the user collection holds at most one Account per identity after every
\* step, and exactly one for an identity once a verify for it has succeeded,
\* also when verify calls for the same identity interleave.
C1_OneAccountPerIdentity ==
    [][ /\ \A e \in Emails : Accounts(user', e) <= 1
        /\ \A p \in Workers : Succeeds(p) => Accounts(user', call[p].email) = 1 ]_vars

\* The codes of identity e were all issued within one validity window.
IssuedWithinWindow(e) ==
    \A i, j \in 1..Len(otp) :
        (otp[i].email = e /\ otp[j].email = e)
        => otp[i].expires_at - otp[j].expires_at <= OtpValidity

\* C2: when the codes of an identity were issued within one validity window,
\* a verify presenting the code of a stored issuance, at a time not after
\* that issuance's own expires_at, is answered neither "Invalid code" nor
\* "Code expired", whatever the code values (equal ones included); and
\* issuing a code leaves the codes stored before as they were.
C2_EitherCodeVerifiesUntilItsOwnExpiry ==
    [][ /\ \A p \in Workers :
             ( /\ ChecksExpiry(p)
               /\ IssuedWithinWindow(call[p].email)
               /\ \E i \in 1..call[p].seen :
                     /\ otp[i].email = call[p].email
                     /\ otp[i].code = call[p].code
                     /\ now <= otp[i].expires_at )
             => ~ Ends(p, Failure("CodeExpired"))
        /\ \A p \in Workers, e \in Emails, c \in Codes :
             (VerifyLookup(p, e, c) /\ Stored(e, c) # {})
             => ~ (pc' = pc /\ resp' = Failure("InvalidCode"))
        /\ \A i \in 1..Len(otp) : Len(otp') >= i /\ otp'[i] = otp[i] ]_vars

\* C3: a code is stored with expires_at = issue time + 10 minutes and is never
\* evicted; when it is the only stored record matching (identity, code), the
\* verify that reads the clock at now <= expires_at stores a session and goes
\* on to return its token, and the one that reads it at now > expires_at ends
\* with "Code expired" (a failing store operation aside).
C3_ExpiryDecidedByClockAtVerification ==
    [][ /\ \A p \in Workers :
             (ChecksExpiry(p) /\ Cardinality(Stored(call[p].email, call[p].code)) = 1)
             => LET exp == call[p].rec[1].expires_at
                IN  /\ call[p].rec[1] = otp[CHOOSE i \in Stored(call[p].email, call[p].code) : TRUE]
                    /\ now > exp => /\ Ends(p, Failure("CodeExpired"))
                                    /\ session' = session
                    /\ now <= exp => \/ /\ pc'[p] = "users"
                                        /\ Len(session') = Len(session) + 1
                                        /\ call'[p].token \in Tokens
                                     \/ Ends(p, Failure("StorageUnavailable"))
        /\ \A p \in Workers :
             (pc[p] \in {"users", "create"} /\ pc'[p] = "idle")
             => Succeeds(p) \/ Ends(p, Failure("StorageUnavailable"))
        /\ \A i \in 1..Len(otp) : Len(otp') >= i /\ otp'[i] = otp[i]
        /\ Len(otp') > Len(otp) => otp'[Len(otp')].expires_at = now + OtpValidity ]_vars

\* C3 witness: the only code of the collection was verified at the very
\* instant of its expires_at (a session and an account exist), and a later
\* verify of it was answered "Code expired".
C3_Witness ==
    /\ Len(otp) = 1
    /\ Len(session) = 1
    /\ session[1].created_at = otp[1].expires_at
    /\ Len(user) = 1
    /\ now > otp[1].expires_at
    /\ resp = Failure("CodeExpired")

\* C4: a verify for (identity, code) when no stored code has both that
\* identity and that code string is answered "Invalid code" (or fails on the
\* store), goes no further, and stores no session and no account.
C4_NoMatchIsInvalidCode ==
    [][ /\ \A p \in Workers, e \in Emails, c \in Codes :
             (VerifyLookup(p, e, c) /\ Stored(e, c) = {})
             => /\ resp' \in {Failure("InvalidCode"), Failure("StorageUnavailable")}
                /\ pc'[p] = "idle"
                /\ session' = session
                /\ user' = user
        /\ (resp' = Failure("InvalidCode") /\ resp' # resp)
             => session' = session /\ user' = user /\ pc' = pc ]_vars

\* C4 witness: each identity holds a code, a verify was answered "Invalid
\* code" (it presented one identity with the other's code), no session exists.
C4_Witness ==
    /\ Len(otp) = 2
    /\ otp[1].email # otp[2].email
    /\ otp[1].code # otp[2].code
    /\ resp = Failure("InvalidCode")
    /\ session = << >>

\* C9: no step of a verify changes the otp collection; a verify whose matched
\* code is not past its expires_at is never answered "Code expired", however
\* many sessions that code has opened; the step that passes the expiry check
\* appends exactly one Session {identity, token, now} with the token just
\* drawn and leaves the earlier sessions as they were; nothing else changes
\* the session collection; and a verify that returns a token has stored its
\* session.
C9_CodeStaysValidAndEachSuccessAddsOneSession ==
    [][ /\ (pc' # pc \/ call' # call \/ resp' # resp) => otp' = otp
        /\ \A p \in Workers :
             (ChecksExpiry(p) /\ now <= call[p].rec[1].expires_at)
             => ~ Ends(p, Failure("CodeExpired"))
        /\ \A p \in Workers :
             (pc[p] = "check" /\ pc'[p] = "users")
             => /\ call'[p].token \in Tokens
                /\ session' = Append(session, [email |-> call[p].email,
                                               token |-> call'[p].token,
                                               created_at |-> now])
        /\ session' # session => \E p \in Workers : pc[p] = "check" /\ pc'[p] = "users"
        /\ \A p \in Workers :
             Succeeds(p) => \E i \in 1..Len(session) :
                               /\ session[i].email = call[p].email
                               /\ session[i].token = call[p].token ]_vars

\* C9 witness: one stored code has opened two sessions, the second one at a
\* later instant, and the second verify returned its token.
C9_Witness ==
    /\ Len(otp) = 1
    /\ Len(session) = 2
    /\ session[1].created_at < session[2].created_at
    /\ resp = Response("ok", session[2].token)
    /\ \A p \in Workers : pc[p] = "idle"

\* C10: a verify that ends in a failure of any kind has written to no
\* collection: a session is never stored by a call that does not return a token.
C10_FailedVerifyLeavesNoState ==
    [][ \A p \in Workers : Fails(p) => call[p].wrote = {} ]_vars

\* ------------------------------------------------------------- progress
Key(doc) == << doc.user_email, doc.course_id, Get(doc, "lesson_id", None) >>

\* The number of records of col under key k.
CountKey(col, k) ==
    BagCardinality([d \in { x \in BagToSet(col) : Key(x) = k } |-> CopiesIn(d, col)])

WithKey(col, k) == { d \in BagToSet(col) : Key(d) = k }

\* C5: the progress collection holds at most one record per composite key
\* (identity, course, lesson-or-null).
C5_OneRecordPerKey ==
    \A d \in BagToSet(progress) : CountKey(progress, Key(d)) = 1

\* C5 witness: after upserts, one identity holds a course-level record (null
\* lesson) and a record of a named lesson of the same course, each with a
\* completion flag and a score.
C5_Witness ==
    \E d, g \in BagToSet(progress) :
        /\ d.user_email = g.user_email
        /\ d.course_id = g.course_id
        /\ d.lesson_id = None
        /\ g.lesson_id = Some("l1")
        /\ {"completed", "score"} \subseteq DOMAIN d
        /\ {"completed", "score"} \subseteq DOMAIN g

\* C6: an upsert with body b leaves exactly one record under b's key; in it
\* each of completed and score holds b's value when b supplies the field and
\* otherwise what the record held before the call (nothing, if there was no
\* record); the records under other keys are unchanged.
C6_UpsertMerges ==
    [][ \A b \in ProgressBodies :
          UpsertProgress(b) =>
            LET k == Key(ProgressFilter(b))
            IN  /\ CountKey(progress', k) = 1
                /\ \A d \in WithKey(progress', k), f \in {"completed", "score"} :
                     IF f \in DOMAIN b
                     THEN f \in DOMAIN d /\ d[f] = b[f]
                     ELSE IF WithKey(progress, k) = {}
                          THEN f \notin DOMAIN d
                          ELSE \A h \in WithKey(progress, k) :
                                 /\ (f \in DOMAIN d) = (f \in DOMAIN h)
                                 /\ f \in DOMAIN h => d[f] = h[f]
                /\ \A h \in BagToSet(progress) \cup BagToSet(progress') :
                     Key(h) # k => CopiesIn(h, progress') = CopiesIn(h, progress) ]_vars

\* C6 witness: a record holds completed = true and score = 80 beside a record
\* of another key that holds neither.
C6_Witness ==
    \E d, g \in BagToSet(progress) :
        /\ "completed" \in DOMAIN d /\ d.completed = TRUE
        /\ "score" \in DOMAIN d /\ d.score = Some(80)
        /\ DOMAIN g \cap {"completed", "score"} = {}

\* ----------------------------------------------------------- leaderboard
\* The scores of the records of e that hold a number.
ScoresOf(col, e) ==
    { d.score[1] : d \in { x \in BagToSet(col) :
                             /\ x.user_email = e
                             /\ "score" \in DOMAIN x
                             /\ x.score # None } }

\* The number of records of e that hold the score v.
Holding(col, e, v) ==
    BagCardinality([d \in { x \in BagToSet(col) :
                              /\ x.user_email = e
                              /\ "score" \in DOMAIN x
                              /\ x.score = Some(v) } |-> CopiesIn(d, col)])

RECURSIVE Weighted(_, _, _)
Weighted(col, e, values) ==
    IF values = {} THEN 0
    ELSE LET v == CHOOSE x \in values : TRUE
         IN  v * Holding(col, e, v) + Weighted(col, e, values \ {v})

\* The sum of e's scores, null and missing scores adding nothing.
Total(col, e) == Weighted(col, e, ScoresOf(col, e))

Identities(col) == { d.user_email : d \in BagToSet(col) }

\* C7: for a positive limit n the leaderboard answers at most n entries, one
\* per identity, each with the sum of that identity's scores (missing and null
\* as 0, completed or not), in descending order of score, and no identity left
\* out has a larger total than one that is in.
C7_LeaderboardRanksTotals ==
    (board # None /\ board[1].limit > 0) =>
        LET en == board[1].entries
            in == { en[i].user_email : i \in 1..Len(en) }
        IN  /\ board[1].status = "ok"
            /\ Len(en) <= board[1].limit
            /\ \A i, j \in 1..Len(en) : en[i].user_email = en[j].user_email => i = j
            /\ in \subseteq Identities(progress)
            /\ \A i \in 1..Len(en) : en[i].score = Total(progress, en[i].user_email)
            /\ \A i, j \in 1..Len(en) : i < j => en[i].score >= en[j].score
            /\ \A e \in Identities(progress) \ in :
                 /\ Len(en) = board[1].limit
                 /\ \A i \in 1..Len(en) : Total(progress, e) <= en[i].score

\* C7 witness: a leaderboard of one entry, an identity whose two records add
\* up to 10, with the other identity (total 5, on a record that is not
\* completed) left out.
C7_Witness ==
    /\ board # None
    /\ board[1].limit = 1
    /\ Len(board[1].entries) = 1
    /\ board[1].entries[1].score = 10
    /\ BagCardinality(progress) = 3
    /\ \E d \in BagToSet(progress) :
          /\ d.user_email # board[1].entries[1].user_email
          /\ "score" \in DOMAIN d
          /\ d.score = Some(5)
          /\ "completed" \in DOMAIN d

\* C8: a leaderboard request with a limit that is not positive fails with
\* InvalidArgument.
C8_NonPositiveLimitIsInvalidArgument ==
    (board # None /\ board[1].limit <= 0) => board[1].status = "InvalidArgument"
====
